---- MODULE Spec2Model ----
(***************************************************************************)
(* A model of the teos10 package: the Gibbs energy functions of gibbs.py   *)
(* (validity, water, salt, seawater) and the property functions of         *)
(* properties.py built on jax.grad.                                        *)
(*                                                                         *)
(* Numbers.  Python floats are modelled by exact values:                   *)
(*   - a finite value is a linear form over the symbols of the model, a    *)
(*     function from keys to non-zero rationals.  The key ONE stands for   *)
(*     the number 1, so a plain number r is the form (ONE :> r); a key     *)
(*     <<"w", 0, j, k>> stands for the water table coefficient             *)
(*     Gdict[(j, k)], <<"s", i, j, k>> for the salt table coefficient      *)
(*     Gdict[(i, j, k)], <<"ln", c, 0, 0>> for ln(c), and                  *)
(*     <<"sln", c, j, k>> for Gdict[(1, j, k)] * ln(c).  The 15-digit      *)
(*     coefficients themselves do not fit TLC's integers, hence symbols.   *)
(*   - NaN and the two infinities are values of their own, with the IEEE   *)
(*     rules (0 * inf = NaN, ln(0) = -inf, x / 0 = inf).                   *)
(*   - a product, quotient or square root of forms that is no linear form  *)
(*     is kept as a term [k |-> "mul" | "div" | "sqrt", ...].              *)
(* Rounding is not modelled.                                               *)
(***************************************************************************)
EXTENDS Integers, Sequences, FiniteSets, TLC

\* The last call made and its outcome: the function called (fn), its
\* positional arguments (argv), the function object given for the keyword
\* gfunc, or Omitted (kw), and what the call returned or raised (out).
VARIABLES fn, argv, kw, out

vars == <<fn, argv, kw, out>>

-----------------------------------------------------------------------------
(* Rationals <<n, d>> in lowest terms with d > 0.                          *)

Abs(x) == IF x < 0 THEN -x ELSE x

RECURSIVE GCD(_, _)
GCD(a, b) == IF b = 0 THEN a ELSE GCD(b, a % b)

Rat(n, d) ==
    LET g == GCD(Abs(n), Abs(d))
        s == IF d < 0 THEN -1 ELSE 1
    IN  <<(s * n) \div g, (s * d) \div g>>

RAdd(a, b) ==
    LET g == GCD(a[2], b[2])
    IN  Rat(a[1] * (b[2] \div g) + b[1] * (a[2] \div g), (a[2] \div g) * b[2])

RNeg(a) == <<-a[1], a[2]>>

RMul(a, b) ==
    LET g1 == GCD(Abs(a[1]), b[2])
        g2 == GCD(Abs(b[1]), a[2])
    IN  IF a[1] = 0 \/ b[1] = 0 THEN <<0, 1>>
        ELSE Rat((a[1] \div g1) * (b[1] \div g2), (a[2] \div g2) * (b[2] \div g1))

RInv(a) == Rat(a[2], a[1])

RSign(a) == IF a[1] > 0 THEN 1 ELSE IF a[1] < 0 THEN -1 ELSE 0

RECURSIVE RPow(_, _)
RPow(a, n) == IF n = 0 THEN <<1, 1>> ELSE RMul(a, RPow(a, n - 1))

-----------------------------------------------------------------------------
(* Float values.                                                           *)

ONE == <<"1", 0, 0, 0>>

Lin(c) == [k |-> "lin", c |-> c]
NaN == [k |-> "nan"]
Inf(s) == [k |-> "inf", s |-> s]
Zero == Lin([x \in {} |-> <<0, 1>>])
Const(r) == IF r[1] = 0 THEN Zero ELSE Lin(ONE :> r)
Num(n, d) == Const(Rat(n, d))
Sym(key) == Lin(key :> <<1, 1>>)

IsNum(v) == v.k \in {"lin", "nan", "inf", "add", "mul", "div", "sqrt"}
IsLin(v) == v.k = "lin"
IsConst(v) == v.k = "lin" /\ DOMAIN v.c \subseteq {ONE}
IsZero(v) == v.k = "lin" /\ DOMAIN v.c = {}
ConstOf(v) == IF DOMAIN v.c = {} THEN <<0, 1>> ELSE v.c[ONE]

\* The coefficient of key x in the form c (0 when absent).
At(c, x) == IF x \in DOMAIN c THEN c[x] ELSE <<0, 1>>

LinAdd(c, d) ==
    LET both == DOMAIN c \cap DOMAIN d
        gone == {x \in both : RAdd(c[x], d[x])[1] = 0}
    IN  IF both = {} THEN c @@ d
        ELSE [x \in (DOMAIN c \cup DOMAIN d) \ gone |->
                 IF x \in both THEN RAdd(c[x], d[x])
                 ELSE IF x \in DOMAIN c THEN c[x] ELSE d[x]]

LinScale(c, r) ==
    IF r[1] = 0 THEN [x \in {} |-> <<0, 1>>] ELSE [x \in DOMAIN c |-> RMul(c[x], r)]

\* The sign of a value whose sign the model knows: a plain number, or an
\* infinity.  Any other value counts as positive.
Sign(v) ==
    IF v.k = "inf" THEN v.s
    ELSE IF IsConst(v) THEN RSign(ConstOf(v))
    ELSE 1

RECURSIVE VNeg(_)
VNeg(v) ==
    CASE v.k = "nan" -> NaN
      [] v.k = "inf" -> Inf(-v.s)
      [] v.k = "lin" -> Lin(LinScale(v.c, <<-1, 1>>))
      [] v.k = "div" -> [k |-> "div", a |-> VNeg(v.a), b |-> v.b]
      [] v.k = "mul" -> [k |-> "mul", a |-> VNeg(v.a), b |-> v.b]
      [] OTHER -> [k |-> "mul", a |-> Num(-1, 1), b |-> v]

VAdd(x, y) ==
    CASE x.k = "nan" \/ y.k = "nan" -> NaN
      [] x.k = "inf" /\ y.k = "inf" -> IF x.s = y.s THEN x ELSE NaN
      [] x.k = "inf" -> x
      [] y.k = "inf" -> y
      [] x.k = "lin" /\ y.k = "lin" -> Lin(LinAdd(x.c, y.c))
      [] IsZero(x) -> y
      [] IsZero(y) -> x
      [] OTHER -> [k |-> "add", a |-> x, b |-> y]

VSub(x, y) == VAdd(x, VNeg(y))

\* The product of two symbols that is again a symbol of the model:
\* Gdict[(1, j, k)] * ln(c).
IsCoefLog(x, y) ==
    /\ IsLin(x) /\ IsLin(y)
    /\ Cardinality(DOMAIN x.c) = 1 /\ Cardinality(DOMAIN y.c) = 1
    /\ \E p \in DOMAIN x.c, q \in DOMAIN y.c : p[1] = "s" /\ p[2] = 1 /\ q[1] = "ln"

CoefLog(x, y) ==
    LET p == CHOOSE p \in DOMAIN x.c : TRUE
        q == CHOOSE q \in DOMAIN y.c : TRUE
    IN  Lin(<<"sln", q[2], p[3], p[4]>> :> RMul(x.c[p], y.c[q]))

VMul(x, y) ==
    CASE x.k = "nan" \/ y.k = "nan" -> NaN
      [] x.k = "inf" \/ y.k = "inf" ->
            IF IsZero(x) \/ IsZero(y) THEN NaN ELSE Inf(Sign(x) * Sign(y))
      [] IsConst(x) /\ IsLin(y) -> Lin(LinScale(y.c, ConstOf(x)))
      [] IsLin(x) /\ IsConst(y) -> Lin(LinScale(x.c, ConstOf(y)))
      [] IsZero(x) \/ IsZero(y) -> Zero
      [] IsCoefLog(x, y) -> CoefLog(x, y)
      [] IsCoefLog(y, x) -> CoefLog(y, x)
      [] OTHER -> [k |-> "mul", a |-> x, b |-> y]

\* x / y with a zero divisor substituted: the quotient is taken as 0.
VDiv_clamped(x, y) ==
    CASE x.k = "nan" \/ y.k = "nan" -> NaN
      [] x.k = "inf" /\ y.k = "inf" -> NaN
      [] x.k = "inf" -> Inf(x.s * (IF IsZero(y) THEN 1 ELSE Sign(y)))
      [] y.k = "inf" -> Zero
      [] IsZero(y) -> Zero
      [] IsLin(x) /\ IsConst(y) -> Lin(LinScale(x.c, RInv(ConstOf(y))))
      [] IsZero(x) -> Zero
      [] OTHER -> [k |-> "div", a |-> x, b |-> y]

VDiv(x, y) ==
    CASE x.k = "nan" \/ y.k = "nan" -> NaN
      [] x.k = "inf" /\ y.k = "inf" -> NaN
      [] x.k = "inf" -> Inf(x.s * (IF IsZero(y) THEN 1 ELSE Sign(y)))
      [] y.k = "inf" -> Zero
      [] IsZero(y) -> IF IsZero(x) THEN NaN ELSE Inf(Sign(x))
      [] IsLin(x) /\ IsConst(y) -> Lin(LinScale(x.c, RInv(ConstOf(y))))
      [] IsZero(x) -> Zero
      [] OTHER -> [k |-> "div", a |-> x, b |-> y]

RECURSIVE VPow(_, _)
\* x ** n with 0 ** 0 taken as 0.
VPow_zeroBase(x, n) ==
    CASE n = 0 -> IF IsZero(x) THEN Zero ELSE Num(1, 1)
      [] n > 0 /\ x.k = "nan" -> NaN
      [] n > 0 /\ IsConst(x) -> Const(RPow(ConstOf(x), n))
      [] n = 1 -> x
      [] OTHER -> VMul(x, VPow(x, n - 1))

\* x ** n for an integer n >= 0; x ** 0 is 1, at x = 0 too.
VPow(x, n) ==
    CASE n = 0 -> Num(1, 1)
      [] n > 0 /\ x.k = "nan" -> NaN
      [] n > 0 /\ IsConst(x) -> Const(RPow(ConstOf(x), n))
      [] n = 1 -> x
      [] OTHER -> VMul(x, VPow(x, n - 1))

-----------------------------------------------------------------------------
(* constants: gibbs.py and properties.py read these as constants.<name>.   *)
(* constants.py sets the reducing values under older names (pnorm, pstar,  *)
(* tzero, tstar, snorm, sstar) and sets no unit conversion, gas constant   *)
(* or salt molar mass, so that reading constants.<name> raises an          *)
(* AttributeError in the package as it stands.  The functions are modelled *)
(* with the names bound: the reducing values are those of constants.py,    *)
(* the two unit conversions those of the specification (dbar to Pa, g/kg   *)
(* to kg/kg), and the gas constant and the salt molar mass are symbols.    *)

dbar_to_Pa == 10000
salinity_to_salt == Rat(1, 1000)
temperature_zero == Rat(27315, 100)
temperature_st == 40
pressure_n == 101325
pressure_st == 100000000
salinity_n == Rat(3516504, 100000000)
salinity_st == RMul(salinity_n, Rat(40, 35))
gas_constant == Sym(<<"R", 0, 0, 0>>)
salt_mass == Sym(<<"M", 0, 0, 0>>)

\* The names constants.py sets, and the names an evaluation of a function
\* reads as constants.<name>.
ConstantsDefined == {"pnorm", "pstar", "tzero", "tstar", "snorm", "sstar"}

ConstantsRead(name) ==
    LET ofWater == {"dbar_to_Pa", "temperature_zero", "temperature_st",
                    "pressure_n", "pressure_st"}
        ofSalt == ofWater \cup {"salinity_to_salt", "salinity_st"}
    IN  CASE name = "validity" -> {"dbar_to_Pa"}
          [] name = "water" -> ofWater
          [] name \in {"salt", "seawater"} -> ofSalt
          [] name = "osmotic" -> ofSalt \cup {"salt_mass", "gas_constant"}

-----------------------------------------------------------------------------
(* Python outcomes: a returned value or a raised exception.                *)

Ok(v) == [tag |-> "ok", v |-> v]
Err(type, why) == [tag |-> "err", type |-> type, why |-> why]
IsOk(o) == o.tag = "ok"
IsErr(o) == o.tag = "err"

\* Binary and unary float operations on outcomes: the left operand is
\* evaluated first, and the first exception raised is the outcome.
Lift2(o1, o2, v) ==
    IF IsErr(o1) THEN o1
    ELSE IF IsErr(o2) THEN o2
    ELSE IF ~IsNum(o1.v) \/ ~IsNum(o2.v) THEN Err("TypeError", "operand")
    ELSE Ok(v)
OAdd(o1, o2) == Lift2(o1, o2, VAdd(o1.v, o2.v))
OSub(o1, o2) == Lift2(o1, o2, VSub(o1.v, o2.v))
OMul(o1, o2) == Lift2(o1, o2, VMul(o1.v, o2.v))
ODiv(o1, o2) == Lift2(o1, o2, VDiv(o1.v, o2.v))
ONeg(o) ==
    IF IsErr(o) THEN o
    ELSE IF ~IsNum(o.v) THEN Err("TypeError", "operand")
    ELSE Ok(VNeg(o.v))

-----------------------------------------------------------------------------
(* gibbs.py                                                                *)

\* Comparisons of plain numbers.
RLe(a, b) == a[1] * b[2] <= b[1] * a[2]
RLt(a, b) == a[1] * b[2] < b[1] * a[2]

\* The lower bound with the sign of the pressure term turned:
\* (270.5 + pressure_Pa * 7.43e-8) < temperature, that is, with
\* m = (temperature - 270.5) * 100, pressure_Pa * 743 < m * 10^8.
AboveLowerBound_rising(pressure_Pa, temperature) ==
    LET m == RMul(RAdd(temperature, RNeg(Rat(2705, 10))), <<100, 1>>)[1]
        e8 == 100000000
        q == m * (e8 \div 743) + (m * (e8 % 743)) \div 743
        r == (m * (e8 % 743)) % 743
    IN  pressure_Pa[1] < q \/ (pressure_Pa[1] = q /\ r > 0)

\* (270.5 - pressure_Pa * 7.43e-8) < temperature, for a temperature that is
\* a whole number of hundredths of a kelvin and a pressure_Pa that is a whole
\* number: with d = (270.5 - temperature) * 100 the comparison is
\* d * 10^8 / 743 < pressure_Pa, that is floor(d * 10^8 / 743) < pressure_Pa,
\* computed without leaving TLC's 32-bit integers.
AboveLowerBound(pressure_Pa, temperature) ==
    LET d == RMul(RAdd(Rat(2705, 10), RNeg(temperature)), <<100, 1>>)[1]
        e8 == 100000000
    IN  d * (e8 \div 743) + (d * (e8 % 743)) \div 743 < pressure_Pa[1]

\* validity with the strict bounds of its docstring.
validity_strict(temperature, pressure) ==
    LET pressure_Pa == ConstOf(VMul(pressure, Num(dbar_to_Pa, 1)))
        vt == AboveLowerBound(pressure_Pa, ConstOf(temperature))
                /\ RLt(ConstOf(temperature), Rat(31315, 100))
        vp == RLt(<<100, 1>>, pressure_Pa) /\ RLt(pressure_Pa, <<100000000, 1>>)
    IN  [total |-> vt /\ vp, temperature |-> vt, pressure |-> vp]

\* validity with the overall flag set when either range holds.
validity_either(temperature, pressure) ==
    LET pressure_Pa == ConstOf(VMul(pressure, Num(dbar_to_Pa, 1)))
        vt == AboveLowerBound(pressure_Pa, ConstOf(temperature))
                /\ RLe(ConstOf(temperature), Rat(31315, 100))
        vp == RLe(<<100, 1>>, pressure_Pa) /\ RLe(pressure_Pa, <<100000000, 1>>)
    IN  [total |-> vt \/ vp, temperature |-> vt, pressure |-> vp]

validity(temperature, pressure) ==
    LET pressure_Pa == ConstOf(VMul(pressure, Num(dbar_to_Pa, 1)))
        vt == AboveLowerBound(pressure_Pa, ConstOf(temperature))
                /\ RLe(ConstOf(temperature), Rat(31315, 100))
        vp == RLe(<<100, 1>>, pressure_Pa) /\ RLe(pressure_Pa, <<100000000, 1>>)
        valid == vt /\ vp
    IN  [total |-> valid, temperature |-> vt, pressure |-> vp]

\* The pairs of range(nj) and range(nk) with the second index as the outer
\* loop.
product_outerSecond(nj, nk) ==
    [n \in 1..(nj * nk) |-> <<(n - 1) % nj, (n - 1) \div nj>>]

\* itertools.product(range(nj), range(nk)), as a sequence.
product(nj, nk) == [n \in 1..(nj * nk) |-> <<(n - 1) \div nk, (n - 1) % nk>>]

\* water's Gdict with its last key (3, 1) typed as (3, 0): in a dictionary
\* literal the later entry replaces the earlier one and an entry is lost.
WaterKeys_duplicate ==
    { <<0, 0>>, <<3, 2>>, <<0, 1>>, <<3, 3>>, <<0, 2>>, <<3, 4>>,
      <<0, 3>>, <<3, 5>>, <<0, 4>>, <<4, 0>>, <<0, 5>>, <<4, 1>>,
      <<0, 6>>, <<4, 2>>, <<1, 0>>, <<4, 3>>, <<1, 1>>, <<4, 4>>,
      <<1, 2>>, <<5, 0>>, <<1, 3>>, <<5, 1>>, <<1, 4>>, <<5, 2>>,
      <<1, 5>>, <<5, 3>>, <<2, 0>>, <<5, 4>>, <<2, 1>>, <<6, 0>>,
      <<2, 2>>, <<6, 1>>, <<2, 3>>, <<6, 2>>, <<2, 4>>, <<6, 3>>,
      <<2, 5>>, <<7, 0>>, <<3, 0>>, <<7, 1>>, <<3, 0>> }

\* The keys of water's Gdict (IAPWS09 Table 2), in the order of the source.
WaterKeys ==
    { <<0, 0>>, <<3, 2>>, <<0, 1>>, <<3, 3>>, <<0, 2>>, <<3, 4>>,
      <<0, 3>>, <<3, 5>>, <<0, 4>>, <<4, 0>>, <<0, 5>>, <<4, 1>>,
      <<0, 6>>, <<4, 2>>, <<1, 0>>, <<4, 3>>, <<1, 1>>, <<4, 4>>,
      <<1, 2>>, <<5, 0>>, <<1, 3>>, <<5, 1>>, <<1, 4>>, <<5, 2>>,
      <<1, 5>>, <<5, 3>>, <<2, 0>>, <<5, 4>>, <<2, 1>>, <<6, 0>>,
      <<2, 2>>, <<6, 1>>, <<2, 3>>, <<6, 2>>, <<2, 4>>, <<6, 3>>,
      <<2, 5>>, <<7, 0>>, <<3, 0>>, <<7, 1>>, <<3, 1>> }

WaterCoef(jk) == Sym(<<"w", 0, jk[1], jk[2]>>)

\* The reduced temperature and pressure shared by water and salt.
Ctau(temperature) ==
    VDiv(VSub(temperature, Const(temperature_zero)), Num(temperature_st, 1))
Cpi(pressure) ==
    VDiv(VSub(VMul(pressure, Num(dbar_to_Pa, 1)), Num(pressure_n, 1)),
         Num(pressure_st, 1))

\* The loop of water over the pairs n..last of the product, Gpure being the
\* sum so far.  It is run one value of j, a row of 7 pairs, at a time, and
\* the test that the sum is a float makes TLC compute it before the next
\* round: both keep the evaluation shallow.
RECURSIVE waterLoop(_, _, _, _, _)
waterLoop(n, last, Gpure, ctau, cpi) ==
    IF n > last THEN Gpure
    ELSE IF last - n >= 7
    THEN LET Grow == waterLoop(n, n + 6, Gpure, ctau, cpi)
         IN  IF IsNum(Grow) THEN waterLoop(n + 7, last, Grow, ctau, cpi) ELSE Grow
    ELSE LET jk == product(8, 7)[n]
             Gnext == IF jk \in WaterKeys
                      THEN VAdd(Gpure, VMul(VMul(WaterCoef(jk), VPow(ctau, jk[1])),
                                            VPow(cpi, jk[2])))
                      ELSE Gpure
         IN  IF IsNum(Gnext) THEN waterLoop(n + 1, last, Gnext, ctau, cpi) ELSE Gnext

water(temperature, pressure) ==
    waterLoop(1, Len(product(8, 7)), Zero, Ctau(temperature), Cpi(pressure))

\* The keys of salt's Gdict (IAPWS08 Table 2), in the order of the source.
SaltKeys ==
    { <<1, 0, 0>>, <<2, 2, 1>>, <<2, 0, 0>>, <<3, 2, 1>>, <<3, 0, 0>>,
      <<2, 3, 1>>, <<4, 0, 0>>, <<3, 3, 1>>, <<5, 0, 0>>, <<2, 4, 1>>,
      <<6, 0, 0>>, <<3, 4, 1>>, <<7, 0, 0>>, <<2, 0, 2>>, <<1, 1, 0>>,
      <<3, 0, 2>>, <<2, 1, 0>>, <<4, 0, 2>>, <<2, 1, 2>>, <<3, 1, 0>>,
      <<4, 1, 0>>, <<3, 1, 2>>, <<5, 1, 0>>, <<2, 2, 2>>, <<6, 1, 0>>,
      <<3, 2, 2>>, <<2, 2, 0>>, <<2, 3, 2>>, <<3, 2, 0>>, <<2, 4, 2>>,
      <<4, 2, 0>>, <<2, 0, 3>>, <<2, 3, 0>>, <<3, 0, 3>>, <<3, 3, 0>>,
      <<4, 0, 3>>, <<4, 3, 0>>, <<2, 1, 3>>, <<2, 4, 0>>, <<3, 1, 3>>,
      <<3, 4, 0>>, <<2, 2, 3>>, <<4, 4, 0>>, <<3, 2, 3>>, <<2, 5, 0>>,
      <<2, 3, 3>>, <<4, 5, 0>>, <<2, 4, 3>>, <<2, 6, 0>>, <<2, 0, 4>>,
      <<2, 0, 1>>, <<3, 0, 4>>, <<2, 1, 4>>, <<3, 0, 1>>, <<4, 0, 1>>,
      <<2, 2, 4>>, <<5, 0, 1>>, <<2, 3, 4>>, <<2, 1, 1>>, <<2, 0, 5>>,
      <<3, 1, 1>>, <<2, 1, 5>>, <<4, 1, 1>>, <<2, 2, 5>> }

SaltCoef(ijk) == Sym(<<"s", ijk[1], ijk[2], ijk[3]>>)

\* The square root of a plain number that is a square of a rational; NaN for
\* a negative number.
ISqrt(n) == CHOOSE x \in 0..n : x * x = n
VSqrt(v) ==
    CASE v.k = "nan" -> NaN
      [] v.k = "inf" -> IF v.s > 0 THEN v ELSE NaN
      [] IsConst(v) ->
            IF RSign(ConstOf(v)) < 0 THEN NaN
            ELSE Const(<<ISqrt(ConstOf(v)[1]), ISqrt(ConstOf(v)[2])>>)
      [] OTHER -> [k |-> "sqrt", a |-> v]

\* The natural logarithm of a plain number: -inf at 0, 0 at 1, NaN below 0,
\* the symbol ln(c) at a whole number c > 1.
VLog(v) ==
    CASE v.k = "nan" -> NaN
      [] v.k = "inf" -> IF v.s > 0 THEN v ELSE NaN
      [] IsZero(v) -> Inf(-1)
      [] RSign(ConstOf(v)) < 0 -> NaN
      [] ConstOf(v) = <<1, 1>> -> Zero
      [] OTHER -> Sym(<<"ln", ConstOf(v)[1], 0, 0>>)

Cxi(salinity) ==
    VSqrt(VDiv(VMul(salinity, Const(salinity_to_salt)), Const(salinity_st)))

RECURSIVE saltInner(_, _, _, _, _)
\* The inner loop of salt over range(2, 7): the power 7 is left out.
saltInner_short(i, addG, j, k, cxi) ==
    IF i >= 7 THEN addG
    ELSE saltInner(i + 1,
             IF <<i, j, k>> \in SaltKeys
             THEN VAdd(addG, VMul(SaltCoef(<<i, j, k>>), VPow(cxi, i)))
             ELSE addG,
             j, k, cxi)

saltInner(i, addG, j, k, cxi) ==
    IF i >= 8 THEN addG
    ELSE saltInner(i + 1,
             IF <<i, j, k>> \in SaltKeys
             THEN VAdd(addG, VMul(SaltCoef(<<i, j, k>>), VPow(cxi, i)))
             ELSE addG,
             j, k, cxi)

\* The loop of salt over the pairs n..last of the product, run one value of
\* j, a row of 6 pairs, at a time.
RECURSIVE saltLoop(_, _, _, _, _, _, _)
saltLoop(n, last, Gsalt, ctau, cpi, cxi, cxi2_lncxi) ==
    IF n > last THEN Gsalt
    ELSE IF last - n >= 6
    THEN LET Grow == saltLoop(n, n + 5, Gsalt, ctau, cpi, cxi, cxi2_lncxi)
         IN  IF IsNum(Grow)
             THEN saltLoop(n + 6, last, Grow, ctau, cpi, cxi, cxi2_lncxi)
             ELSE Grow
    ELSE LET j == product(7, 6)[n][1]
             k == product(7, 6)[n][2]
             addG0 == IF <<1, j, k>> \in SaltKeys
                      THEN VMul(SaltCoef(<<1, j, k>>), cxi2_lncxi)
                      ELSE Zero
             addG == saltInner(2, addG0, j, k, cxi)
             Gnext == VAdd(Gsalt, VMul(VMul(addG, VPow(ctau, j)), VPow(cpi, k)))
         IN  IF IsNum(Gnext)
             THEN saltLoop(n + 1, last, Gnext, ctau, cpi, cxi, cxi2_lncxi)
             ELSE Gnext

salt(temperature, pressure, salinity) ==
    LET cxi == Cxi(salinity)
        cxi2_lncxi == VMul(VPow(cxi, 2), VLog(cxi))
    IN  saltLoop(1, Len(product(7, 6)), Zero, Ctau(temperature), Cpi(pressure),
                 cxi, cxi2_lncxi)

\* seawater returning the water part alone, the saline part left out.
seawater_waterOnly(temperature, pressure_Pa, salinity) ==
    water(temperature, pressure_Pa)

seawater(temperature, pressure_Pa, salinity) ==
    VAdd(water(temperature, pressure_Pa), salt(temperature, pressure_Pa, salinity))

-----------------------------------------------------------------------------
(* Calls.  A function object is [k |-> "fn", name, d]: the Gibbs function  *)
(* `name` wrapped in one jax.grad per entry of d, innermost first (d[n] is *)
(* that wrapper's argnums).                                                *)

GibbsFn(name) == [k |-> "fn", name |-> name, d |-> <<>>]
Front(s) == SubSeq(s, 1, Len(s) - 1)
Last(s) == s[Len(s)]
Inner(f) == [f EXCEPT !.d = Front(f.d)]

\* jax.grad(fun, argnums): the function returned; nothing is evaluated yet.
grad(fun, argnums) == [fun EXCEPT !.d = Append(fun.d, argnums)]

\* What jax records of a Gibbs function run on tracers: its terms
\* Gdict[key] * m * ctau^e[1] * cpi^e[2] * cxi^e[3] * ln(cxi)^e[4], in the
\* order the loops add them.
Term(key, m, e) == [key |-> key, m |-> m, e |-> e]

waterTrace ==
    LET ks == SelectSeq(product(8, 7), LAMBDA jk : jk \in WaterKeys)
    IN  [n \in 1..Len(ks) |->
            Term(<<"w", 0, ks[n][1], ks[n][2]>>, <<1, 1>>, <<ks[n][1], ks[n][2], 0, 0>>)]

saltTrace ==
    LET all == [n \in 1..(Len(product(7, 6)) * 7) |->
                    <<1 + ((n - 1) % 7),
                      product(7, 6)[1 + ((n - 1) \div 7)][1],
                      product(7, 6)[1 + ((n - 1) \div 7)][2]>>]
        ks == SelectSeq(all, LAMBDA ijk : ijk \in SaltKeys)
    IN  [n \in 1..Len(ks) |->
            Term(<<"s", ks[n][1], ks[n][2], ks[n][3]>>, <<1, 1>>,
                 IF ks[n][1] = 1 THEN <<ks[n][2], ks[n][3], 2, 1>>
                 ELSE <<ks[n][2], ks[n][3], ks[n][1], 0>>)]

Trace(name) ==
    CASE name = "water" -> waterTrace
      [] name = "salt" -> saltTrace
      [] name = "seawater" -> waterTrace \o saltTrace

\* The derivative of each term with respect to positional argument argnums:
\*   d ctau / d temperature = 1 / temperature_st,
\*   d cpi / d pressure = dbar_to_Pa / pressure_st,
\*   d cxi^2 / d salinity = salinity_to_salt / salinity_st, so that
\*   d (cxi^n ln(cxi)^l) / d salinity
\*       = (n cxi^(n-2) ln(cxi)^l + l cxi^(n-2) ln(cxi)^(l-1)) * that / 2.
Scaled(t, r, e) == Term(t.key, RMul(t.m, r), e)

gradTerms(terms, argnums) ==
    LET dS == RMul(RMul(salinity_to_salt, RInv(salinity_st)), Rat(1, 2))
        byT == [n \in 1..Len(terms) |->
                   Scaled(terms[n], Rat(terms[n].e[1], temperature_st),
                          [terms[n].e EXCEPT ![1] = @ - 1])]
        byP == [n \in 1..Len(terms) |->
                   Scaled(terms[n], Rat(terms[n].e[2] * dbar_to_Pa, pressure_st),
                          [terms[n].e EXCEPT ![2] = @ - 1])]
        byS1 == [n \in 1..Len(terms) |->
                   Scaled(terms[n], RMul(<<terms[n].e[3], 1>>, dS),
                          [terms[n].e EXCEPT ![3] = @ - 2])]
        byS2 == [n \in 1..Len(terms) |->
                   Scaled(terms[n], RMul(<<terms[n].e[4], 1>>, dS),
                          [terms[n].e EXCEPT ![3] = @ - 2, ![4] = @ - 1])]
        all == CASE argnums = 0 -> byT
                 [] argnums = 1 -> byP
                 [] argnums = 2 -> byS1 \o byS2
    IN  SelectSeq(all, LAMBDA t : t.m[1] # 0)

RECURSIVE Table(_)
Table(f) == IF f.d = <<>> THEN Trace(f.name) ELSE gradTerms(Table(Inner(f)), Last(f.d))

\* x ** n for any integer n.
PowZ(x, n) == IF n >= 0 THEN VPow(x, n) ELSE VDiv(Num(1, 1), VPow(x, -n))

EvalTerm(t, ctau, cpi, cxi) ==
    VMul(Sym(t.key),
         VMul(VMul(VMul(Const(t.m), PowZ(ctau, t.e[1])), PowZ(cpi, t.e[2])),
              VMul(PowZ(cxi, t.e[3]), IF t.e[4] = 1 THEN VLog(cxi) ELSE Num(1, 1))))

\* The sum of the terms n..last, added to acc in their order, ten at a time.
RECURSIVE EvalTerms(_, _, _, _, _, _, _)
EvalTerms(terms, n, last, acc, ctau, cpi, cxi) ==
    IF n > last THEN acc
    ELSE IF last - n >= 10
    THEN LET part == EvalTerms(terms, n, n + 9, acc, ctau, cpi, cxi)
         IN  IF IsNum(part) THEN EvalTerms(terms, n + 10, last, part, ctau, cpi, cxi)
             ELSE part
    ELSE LET next == VAdd(acc, EvalTerm(terms[n], ctau, cpi, cxi))
         IN  IF IsNum(next) THEN EvalTerms(terms, n + 1, last, next, ctau, cpi, cxi)
             ELSE next

\* The value of a differentiated Gibbs function at a state point.  jax
\* differentiates cxi = sqrt(...) at salinity 0 as 0 * inf: NaN.
GradValue(f, a) ==
    LET cxi == IF Len(a) >= 3 THEN Cxi(a[3]) ELSE Zero
    IN  IF Len(a) >= 3 /\ (~IsConst(cxi) \/ (IsZero(cxi) /\ \E n \in 1..Len(f.d) : f.d[n] = 2))
        THEN NaN
        ELSE EvalTerms(Table(f), 1, Len(Table(f)), Zero, Ctau(a[1]), Cpi(a[2]), cxi)

\* Calling a Gibbs function of the module with the positional arguments a:
\* the exception the call raises, or Ok(Zero) when it raises none.
BaseRaises(name, a) ==
    LET arity == IF name = "water" THEN 2 ELSE 3
    IN  IF Len(a) < arity THEN Err("TypeError", "missing argument")
        ELSE IF Len(a) > arity THEN Err("TypeError", "too many arguments")
        ELSE IF \E n \in 1..Len(a) : ~IsNum(a[n]) THEN Err("TypeError", "operand")
        ELSE Ok(Zero)

BaseCall(name, a) ==
    IF IsErr(BaseRaises(name, a)) THEN BaseRaises(name, a)
    ELSE CASE name = "water" -> Ok(water(a[1], a[2]))
           [] name = "salt" -> Ok(salt(a[1], a[2], a[3]))
           [] name = "seawater" -> Ok(seawater(a[1], a[2], a[3]))

\* Calling any function object.  A jax.grad wrapper first checks that its
\* argnums names a positional argument and that this argument is a float,
\* then runs the function it wraps, on tracers.
RECURSIVE Raises(_, _)
Raises(f, a) ==
    IF f.d = <<>> THEN BaseRaises(f.name, a)
    ELSE IF Last(f.d) >= Len(a) THEN Err("TypeError", "argnums")
    ELSE IF ~IsNum(a[Last(f.d) + 1]) THEN Err("TypeError", "operand")
    ELSE Raises(Inner(f), a)

Call(f, a) ==
    IF f.d = <<>> THEN BaseCall(f.name, a)
    ELSE IF IsErr(Raises(f, a)) THEN Raises(f, a)
    ELSE Ok(GradValue(f, a))

\* args[i] of a Python tuple.
Arg(a, i) ==
    IF i + 1 > Len(a) THEN Err("IndexError", "tuple index out of range") ELSE Ok(a[i + 1])

-----------------------------------------------------------------------------
(* properties.py.  A property function takes its state point as the tuple *)
(* args and the Gibbs function as the keyword gfunc; in the model a is the *)
(* tuple args and gfunc the function object bound to the keyword.          *)

default == GibbsFn("seawater")

dG_dT(gfunc) == grad(gfunc, 0)

dG_dp(gfunc) == grad(gfunc, 1)

dG_dS(gfunc) == grad(gfunc, 2)

d2G_dT2(gfunc) == grad(dG_dT(gfunc), 0)

d2G_dSdp(gfunc) == grad(dG_dp(gfunc), 2)

\* d2G_dTdp differentiating by temperature twice, as d2G_dT2 does.
d2G_dTdp_twiceT(gfunc) == grad(dG_dT(gfunc), 0)

d2G_dTdp(gfunc) == grad(dG_dT(gfunc), 1)

d2G_dp2(gfunc) == grad(dG_dp(gfunc), 1)

density(a, gfunc) == ODiv(Ok(Num(1, 1)), Call(dG_dp(gfunc), a))

entropy(a, gfunc) == ONeg(Call(dG_dT(gfunc), a))

heat_capacity(a, gfunc) == OMul(ONeg(Arg(a, 0)), Call(d2G_dT2(gfunc), a))

\* entropy is called with gfunc after the unpacked args: gfunc is passed as one more positional argument,
\* and entropy's own keyword keeps its default.
enthalpy(a, gfunc) ==
    OAdd(Call(gfunc, a), OMul(Arg(a, 0), entropy(Append(a, gfunc), default)))

\* enthalpy is called with gfunc after the unpacked args too.
internal_energy(a, gfunc) ==
    OSub(enthalpy(Append(a, gfunc), default),
         OMul(Arg(a, 1), Call(dG_dp(gfunc), a)))

helmholtz_energy(a, gfunc) ==
    OSub(Call(gfunc, a), OMul(Arg(a, 1), Call(dG_dp(gfunc), a)))

thermal_expansion(a, gfunc) ==
    ODiv(Call(d2G_dTdp(gfunc), a), Call(dG_dp(gfunc), a))

\* The isentropic temperature-pressure coefficient of IAPWS09 Table 3 (11),
\* -g_Tp / g_TT: the divisor is d2G_dT2 and not dG_dp.
adiabatic_lapse_rate_byTT(a, gfunc) ==
    ODiv(ONeg(Call(d2G_dTdp(gfunc), a)), Call(d2G_dT2(gfunc), a))

adiabatic_lapse_rate(a, gfunc) ==
    ODiv(ONeg(Call(d2G_dTdp(gfunc), a)), Call(dG_dp(gfunc), a))

isothermal_compressibility(a, gfunc) ==
    ODiv(ONeg(Call(d2G_dp2(gfunc), a)), Call(dG_dp(gfunc), a))

OSquare(o) == IF IsErr(o) THEN o ELSE Ok(VPow(o.v, 2))
OSqrt(o) == IF IsErr(o) THEN o ELSE Ok(VSqrt(o.v))

isenotropic_compressibility(a, gfunc) ==
    ODiv(OSub(OSquare(Call(d2G_dTdp(gfunc), a)),
              OMul(Call(d2G_dT2(gfunc), a), Call(d2G_dp2(gfunc), a))),
         OMul(Call(dG_dp(gfunc), a), Call(dG_dT(gfunc), a)))

sound_speed(a, gfunc) ==
    OMul(Call(dG_dp(gfunc), a),
         OSqrt(ODiv(Call(d2G_dT2(gfunc), a),
                    OSub(OSquare(Call(d2G_dTdp(gfunc), a)),
                         OMul(Call(d2G_dT2(gfunc), a), Call(d2G_dp2(gfunc), a))))))

chemical_potential_relative(a, gfunc) == Call(dG_dS(gfunc), a)

chemical_potential_water(a, gfunc) ==
    OSub(Call(gfunc, a), OMul(Arg(a, 2), Call(dG_dS(gfunc), a)))

chemical_potential_salt(a, gfunc) ==
    OAdd(Call(gfunc, a),
         OMul(OSub(Ok(Num(1, 1)), Arg(a, 2)), Call(dG_dS(gfunc), a)))

molality_seawater(sal) ==
    ODiv(sal, OMul(OSub(Ok(Num(1, 1)), sal), Ok(salt_mass)))

\* chemical_potential_water is called with gfunc=default: the keyword is
\* bound to the module's default, whatever gfunc the caller gave.
osmotic(a, gfunc) ==
    ODiv(ONeg(chemical_potential_water(a, default)),
         OMul(OMul(molality_seawater(Arg(a, 2)), Ok(gas_constant)), Arg(a, 0)))

haline_contraction(a, gfunc) ==
    ODiv(ONeg(Call(d2G_dSdp(gfunc), a)), Call(dG_dp(gfunc), a))

-----------------------------------------------------------------------------
(* The callers: every public function, called at the points of a grid.     *)

MaxTau == 1
MaxPi == 1
MaxXi == 2
Delta == 1

\* State points at which the reduced coordinates are whole numbers:
\* temperature = temperature_zero + ctau * temperature_st (K),
\* pressure = (pressure_n + cpi * pressure_st) / dbar_to_Pa (dbar),
\* salinity = cxi^2 * salinity_st / salinity_to_salt (g/kg).
GridT == {Const(RAdd(temperature_zero, <<c * temperature_st, 1>>)) : c \in 0..MaxTau}
GridP == {Const(Rat(pressure_n + c * pressure_st, dbar_to_Pa)) : c \in 0..MaxPi}
GridS == {Const(RMul(<<c * c, 1>>, RMul(salinity_st, RInv(salinity_to_salt)))) :
              c \in 0..MaxXi}

Points2 == {<<T, P>> : T \in GridT, P \in GridP}
Points3 == {<<T, P, S>> : T \in GridT, P \in GridP, S \in GridS}
Points == Points2 \cup Points3

\* Temperatures (K) and pressures (dbar) at and next to the bounds of the
\* validity range, in steps of 0.01 K and 1 Pa.
ValidityT ==
    {Num(c + d, 100) : c \in {26307, 27050, 31315}, d \in (-Delta)..Delta}
        \cup {Num(27315, 100)}
ValidityP ==
    {Num(c + d, dbar_to_Pa) : c \in {100, 100000000}, d \in (-Delta)..Delta}
        \cup {Num(0, 1), Num(pressure_n, dbar_to_Pa)}

Omitted == [k |-> "omitted"]
GibbsFns == {GibbsFn("water"), GibbsFn("salt"), GibbsFn("seawater")}
Keywords == GibbsFns \cup {Omitted}

\* The function object a property function's gfunc is bound to.
Bound(g) == IF g = Omitted THEN default ELSE g

Init ==
    /\ fn = "none"
    /\ argv = <<>>
    /\ kw = Omitted
    /\ out = [tag |-> "none"]

\* The outcome of a call is recorded.  Every call is made by an idle caller.
Returned(name, a, g, o) ==
    /\ fn' = name
    /\ argv' = a
    /\ kw' = g
    /\ out' = o

Idle == fn = "none"

Call_validity ==
    /\ Idle
    /\ \E T \in ValidityT, P \in ValidityP :
       Returned("validity", <<T, P>>, Omitted, Ok(validity(T, P)))

Call_water ==
    /\ Idle
    /\ \E a \in Points : Returned("water", a, Omitted, BaseCall("water", a))


Call_salt ==
    /\ Idle
    /\ \E a \in Points : Returned("salt", a, Omitted, BaseCall("salt", a))


Call_seawater ==
    /\ Idle
    /\ \E a \in Points : Returned("seawater", a, Omitted, BaseCall("seawater", a))


Call_dG_dT ==
    /\ Idle
    /\ \E a \in Points, g \in GibbsFns : Returned("dG_dT", a, g, Call(dG_dT(g), a))


Call_dG_dp ==
    /\ Idle
    /\ \E a \in Points, g \in GibbsFns : Returned("dG_dp", a, g, Call(dG_dp(g), a))


Call_dG_dS ==
    /\ Idle
    /\ \E a \in Points, g \in GibbsFns : Returned("dG_dS", a, g, Call(dG_dS(g), a))


Call_d2G_dT2 ==
    /\ Idle
    /\ \E a \in Points, g \in GibbsFns : Returned("d2G_dT2", a, g, Call(d2G_dT2(g), a))


Call_d2G_dSdp ==
    /\ Idle
    /\ \E a \in Points, g \in GibbsFns : Returned("d2G_dSdp", a, g, Call(d2G_dSdp(g), a))


Call_d2G_dTdp ==
    /\ Idle
    /\ \E a \in Points, g \in GibbsFns : Returned("d2G_dTdp", a, g, Call(d2G_dTdp(g), a))


Call_d2G_dp2 ==
    /\ Idle
    /\ \E a \in Points, g \in GibbsFns : Returned("d2G_dp2", a, g, Call(d2G_dp2(g), a))


Call_density ==
    /\ Idle
    /\ \E a \in Points, g \in Keywords : Returned("density", a, g, density(a, Bound(g)))


Call_entropy ==
    /\ Idle
    /\ \E a \in Points, g \in Keywords : Returned("entropy", a, g, entropy(a, Bound(g)))


Call_heat_capacity ==
    /\ Idle
    /\ \E a \in Points, g \in Keywords :
       Returned("heat_capacity", a, g, heat_capacity(a, Bound(g)))

Call_enthalpy ==
    /\ Idle
    /\ \E a \in Points, g \in Keywords : Returned("enthalpy", a, g, enthalpy(a, Bound(g)))


Call_internal_energy ==
    /\ Idle
    /\ \E a \in Points, g \in Keywords :
       Returned("internal_energy", a, g, internal_energy(a, Bound(g)))

Call_helmholtz_energy ==
    /\ Idle
    /\ \E a \in Points, g \in Keywords :
       Returned("helmholtz_energy", a, g, helmholtz_energy(a, Bound(g)))

Call_thermal_expansion ==
    /\ Idle
    /\ \E a \in Points, g \in Keywords :
       Returned("thermal_expansion", a, g, thermal_expansion(a, Bound(g)))

Call_adiabatic_lapse_rate ==
    /\ Idle
    /\ \E a \in Points, g \in Keywords :
       Returned("adiabatic_lapse_rate", a, g, adiabatic_lapse_rate(a, Bound(g)))

Call_isothermal_compressibility ==
    /\ Idle
    /\ \E a \in Points, g \in Keywords :
       Returned("isothermal_compressibility", a, g,
       isothermal_compressibility(a, Bound(g)))

Call_isenotropic_compressibility ==
    /\ Idle
    /\ \E a \in Points, g \in Keywords :
       Returned("isenotropic_compressibility", a, g,
       isenotropic_compressibility(a, Bound(g)))

Call_sound_speed ==
    /\ Idle
    /\ \E a \in Points, g \in Keywords :
       Returned("sound_speed", a, g, sound_speed(a, Bound(g)))

Call_chemical_potential_relative ==
    /\ Idle
    /\ \E a \in Points, g \in Keywords :
       Returned("chemical_potential_relative", a, g,
       chemical_potential_relative(a, Bound(g)))

Call_chemical_potential_water ==
    /\ Idle
    /\ \E a \in Points, g \in Keywords :
       Returned("chemical_potential_water", a, g,
       chemical_potential_water(a, Bound(g)))

Call_chemical_potential_salt ==
    /\ Idle
    /\ \E a \in Points, g \in Keywords :
       Returned("chemical_potential_salt", a, g,
       chemical_potential_salt(a, Bound(g)))

Call_osmotic ==
    /\ Idle
    /\ \E a \in Points, g \in Keywords : Returned("osmotic", a, g, osmotic(a, Bound(g)))


Call_haline_contraction ==
    /\ Idle
    /\ \E a \in Points, g \in Keywords :
       Returned("haline_contraction", a, g, haline_contraction(a, Bound(g)))

\* The caller is done with the outcome and is idle again.
Forget ==
    /\ ~Idle
    /\ fn' = "none"
    /\ argv' = <<>>
    /\ kw' = Omitted
    /\ out' = [tag |-> "none"]

Next ==
    \/ Forget
    \/ Call_validity
    \/ Call_water
    \/ Call_salt
    \/ Call_seawater
    \/ Call_dG_dT
    \/ Call_dG_dp
    \/ Call_dG_dS
    \/ Call_d2G_dT2
    \/ Call_d2G_dSdp
    \/ Call_d2G_dTdp
    \/ Call_d2G_dp2
    \/ Call_density
    \/ Call_entropy
    \/ Call_heat_capacity
    \/ Call_enthalpy
    \/ Call_internal_energy
    \/ Call_helmholtz_energy
    \/ Call_thermal_expansion
    \/ Call_adiabatic_lapse_rate
    \/ Call_isothermal_compressibility
    \/ Call_isenotropic_compressibility
    \/ Call_sound_speed
    \/ Call_chemical_potential_relative
    \/ Call_chemical_potential_water
    \/ Call_chemical_potential_salt
    \/ Call_osmotic
    \/ Call_haline_contraction

Spec == Init /\ [][Next]_vars

\* The callers of one group of functions each.
NextGibbs ==
    \/ Forget
    \/ Call_validity
    \/ Call_water
    \/ Call_salt
    \/ Call_seawater

SpecGibbs == Init /\ [][NextGibbs]_vars

NextDerivatives ==
    \/ Forget
    \/ Call_dG_dT
    \/ Call_dG_dp
    \/ Call_dG_dS
    \/ Call_d2G_dT2
    \/ Call_d2G_dSdp
    \/ Call_d2G_dTdp
    \/ Call_d2G_dp2

SpecDerivatives == Init /\ [][NextDerivatives]_vars

NextEnergy ==
    \/ Forget
    \/ Call_density
    \/ Call_entropy
    \/ Call_heat_capacity
    \/ Call_enthalpy
    \/ Call_internal_energy
    \/ Call_helmholtz_energy

SpecEnergy == Init /\ [][NextEnergy]_vars

\* The callers of the first-order response coefficients.
NextResponse ==
    \/ Forget
    \/ Call_thermal_expansion
    \/ Call_adiabatic_lapse_rate
    \/ Call_isothermal_compressibility

SpecResponse == Init /\ [][NextResponse]_vars

\* The callers of the properties that divide by dG_dp alone.
NextDenominators ==
    \/ Forget
    \/ Call_density
    \/ Call_thermal_expansion
    \/ Call_isothermal_compressibility
    \/ Call_haline_contraction

SpecDenominators == Init /\ [][NextDenominators]_vars

NextSalinity ==
    \/ Forget
    \/ Call_chemical_potential_relative
    \/ Call_chemical_potential_water
    \/ Call_chemical_potential_salt
    \/ Call_osmotic
    \/ Call_haline_contraction

SpecSalinity == Init /\ [][NextSalinity]_vars

-----------------------------------------------------------------------------
(* The claims.                                                             *)

\* C1: gibbs.seawater(T, P, S) returns gibbs.water(T, P) + gibbs.salt(T, P, S),
\* with the same T, P and S passed unchanged to both parts.
C1_SeawaterIsWaterPlusSalt ==
    (fn = "seawater" /\ Len(argv) = 3) =>
        out = Ok(VAdd(water(argv[1], argv[2]), salt(argv[1], argv[2], argv[3])))

\* A seawater call whose sum holds terms of both tables, at a pressure where
\* the water part depends on the pressure.
C1_Witness ==
    /\ fn = "seawater" /\ IsOk(out) /\ IsLin(out.v)
    /\ <<"w", 0, 0, 1>> \in DOMAIN out.v.c
    /\ <<"s", 2, 0, 0>> \in DOMAIN out.v.c

\* C2: gibbs.salt(T, P, 0) returns 0 for every T and P: at salinity 0 the term
\* cxi^2 * ln(cxi) is taken as 0, so the result is never NaN.
C2_ZeroSalinityIsZero ==
    (fn = "salt" /\ Len(argv) = 3 /\ IsZero(argv[3])) => out = Ok(Zero)

C4_TotalIsBoth ==
    fn = "validity" => (out.v.total <=> (out.v.temperature /\ out.v.pressure))

\* validity called where the temperature is in range and the pressure is not.
C4_Witness ==
    fn = "validity" /\ out.v.temperature /\ ~out.v.pressure /\ ~out.v.total

\* C5: properties.enthalpy called with the state point args and gfunc = G
\* returns G at the point + T * entropy at the point, the entropy taken with
\* the same G and the same state point.
C5_EnthalpyFormula ==
    fn = "enthalpy" =>
        out = OAdd(Call(Bound(kw), argv),
                   OMul(Arg(argv, 0), entropy(argv, Bound(kw))))

\* C6: properties.osmotic called with gfunc = G computes the water chemical
\* potential from G; the default seawater function is used only when gfunc
\* is omitted.
C6_OsmoticUsesGfunc ==
    (fn = "osmotic" /\ kw # Omitted /\ Len(argv) = 3) =>
        out = ODiv(ONeg(chemical_potential_water(argv, kw)),
                   OMul(OMul(molality_seawater(Arg(argv, 2)), Ok(gas_constant)),
                        Arg(argv, 0)))

\* C7: a salinity-derivative property called with a two-argument state point
\* and the water-only Gibbs function ends in an error that says an argument
\* is not present; it is never an index error and never a returned value.
SalinityProperties ==
    {"chemical_potential_relative", "chemical_potential_water",
     "chemical_potential_salt", "osmotic", "haline_contraction"}

C7_ArgumentNotPresent ==
    (fn \in SalinityProperties /\ Len(argv) = 2 /\ kw = GibbsFn("water")) =>
        /\ IsErr(out)
        /\ out.type # "IndexError"
        /\ out.why \in {"argnums", "missing argument"}

\* C8: the mixed second derivatives commute: d2G_dTdp, which differentiates by
\* temperature and then by pressure, gives what differentiating dG_dp by
\* temperature gives, for every Gibbs function and state point.
C8_MixedDerivativesCommute ==
    fn = "d2G_dTdp" => out = Call(grad(dG_dp(kw), 0), argv)

\* d2G_dTdp has returned a derivative that is not zero.
C8_Witness ==
    fn = "d2G_dTdp" /\ IsOk(out) /\ IsLin(out.v) /\ ~IsZero(out.v)

\* C9: with the pressure passed in dbar, dG_dp(gibbs.water) returns the
\* derivative with respect to the pressure in Pa: at 273.15 K and 10.1325 dbar
\* (ctau = cpi = 0) that is Gdict[(0, 1)] / pressure_st, about 1.0e-3 m^3/kg,
\* and not the derivative per dbar, 10^4 times larger.
C9_DerivativePerPascal ==
    (/\ fn = "dG_dp" /\ kw = GibbsFn("water")
     /\ argv = <<Const(temperature_zero), Num(pressure_n, dbar_to_Pa)>>) =>
        out = Ok(Lin(<<"w", 0, 0, 1>> :> Rat(1, pressure_st)))

\* C11: gibbs.water at the reference point T = 273.15 K, P = 10.1325 dbar
\* (ctau = 0 and cpi = 0) returns exactly the (0, 0) table coefficient: every
\* term with a positive exponent contributes 0 and 0^0 evaluates to 1.
C11_ReferencePoint ==
    (/\ fn = "water"
     /\ argv = <<Const(temperature_zero), Num(pressure_n, dbar_to_Pa)>>) =>
        out = Ok(WaterCoef(<<0, 0>>))

\* water has been called at the reference point, where both reduced
\* coordinates are 0, and has returned a value that is not zero.
C11_Witness ==
    /\ fn = "water"
    /\ IsZero(Ctau(argv[1])) /\ IsZero(Cpi(argv[2]))
    /\ IsOk(out) /\ ~IsZero(out.v)
\* C12: properties.osmotic computes the molality S / ((1 - S) * salt_mass)
\* from the salinity converted to a kg/kg mass fraction, S = salinity in g/kg
\* times salinity_to_salt, so that it is positive for 0 < S < 1000 g/kg.
C12_MolalityFromMassFraction ==
    (fn = "osmotic" /\ Len(argv) = 3) =>
        out = ODiv(ONeg(chemical_potential_water(argv, default)),
                   OMul(OMul(molality_seawater(
                                 Ok(VMul(argv[3], Const(salinity_to_salt)))),
                             Ok(gas_constant)),
                        Arg(argv, 0)))
\* C13: when the denominator derivative dG/dp is zero, density,
\* thermal_expansion, isothermal_compressibility and haline_contraction
\* return a non-finite value (infinity or NaN), never a finite number.
C13_ZeroDenominatorNonFinite ==
    (/\ fn \in {"density", "thermal_expansion", "isothermal_compressibility",
                "haline_contraction"}
     /\ Call(dG_dp(Bound(kw)), argv) = Ok(Zero)) =>
        (IsOk(out) /\ out.v.k \in {"nan", "inf"})

\* density called where dG/dp is zero (the saline part at salinity 0) has
\* returned 1.0 / 0.0, infinity.
C13_Witness ==
    /\ fn = "density"
    /\ Call(dG_dp(Bound(kw)), argv) = Ok(Zero)
    /\ out = Ok(Inf(1))
\* C14: no property function rejects a state point that gibbs.validity
\* reports as invalid: called with such a point (and as many arguments as
\* the Gibbs function takes) every property function still evaluates its
\* formula and returns a number.
C14_InvalidPointStillEvaluated ==
    (/\ fn \in {"density", "entropy", "heat_capacity", "enthalpy",
                "internal_energy", "helmholtz_energy"}
     /\ Len(argv) = (IF Bound(kw).name = "water" THEN 2 ELSE 3)
     /\ ~validity(argv[1], argv[2]).total) =>
        (IsOk(out) /\ IsNum(out.v))
\* C15: the constants module defines every constant the other modules
\* read: each name an evaluation reads as constants.<name> is set by
\* constants.py, so no evaluation fails on a missing constant.
C15_ConstantsDefined ==
    fn \in {"validity", "water", "salt", "seawater"} =>
        ConstantsRead(fn) \subseteq ConstantsDefined
\* C16: the coefficient table of gibbs.water has exactly 29 entries with
\* unique keys (j, k), j in 0..7 and k in 0..6.
C16_TwentyNineEntries ==
    fn = "water" =>
        /\ Cardinality(WaterKeys) = 29
        /\ \A jk \in WaterKeys : jk[1] \in 0..7 /\ jk[2] \in 0..6

\* C16, amended: the coefficient table of gibbs.water has exactly 41 entries
\* with unique keys (j, k), j in 0..7 and k in 0..6, and the terms of a
\* value water returns are terms of these entries.
C16_FortyOneEntries ==
    fn = "water" =>
        /\ Cardinality(WaterKeys) = 41
        /\ \A jk \in WaterKeys : jk[1] \in 0..7 /\ jk[2] \in 0..6
        /\ (IsOk(out) /\ IsLin(out.v)) =>
              DOMAIN out.v.c \subseteq UNION {DOMAIN WaterCoef(jk).c : jk \in WaterKeys}

\* water called where neither reduced coordinate is 0 has returned a sum of
\* 41 terms.
C16_Witness ==
    fn = "water" /\ IsOk(out) /\ IsLin(out.v) /\ Cardinality(DOMAIN out.v.c) = 41
\* C17: gibbs.water accumulates its terms in strictly ascending (j, k)
\* order, adds every entry of the coefficient table exactly once and nothing
\* for an exponent pair absent from the table; the loop over
\* range(8) x range(7) leaves no table entry out.
C17_WaterAccumulation ==
    fn = "water" =>
        LET pair(n) == <<waterTrace[n].e[1], waterTrace[n].e[2]>>
        IN  /\ Len(waterTrace) = Cardinality(WaterKeys)
            /\ {pair(n) : n \in 1..Len(waterTrace)} = WaterKeys
            /\ \A n \in 1..(Len(waterTrace) - 1) :
                   \/ pair(n)[1] < pair(n + 1)[1]
                   \/ pair(n)[1] = pair(n + 1)[1] /\ pair(n)[2] < pair(n + 1)[2]
            /\ (/\ Len(argv) = 2
                /\ Ctau(argv[1]) = Num(1, 1) /\ Cpi(argv[2]) = Num(1, 1)) =>
                   out = Ok(Lin([key \in UNION {DOMAIN WaterCoef(jk).c : jk \in WaterKeys}
                                    |-> <<1, 1>>]))

\* water called at ctau = 1 and cpi = 1, where every term is its coefficient,
\* has returned a sum in which the (7, 1) and (0, 6) entries appear.
C17_Witness ==
    /\ fn = "water"
    /\ Ctau(argv[1]) = Num(1, 1) /\ Cpi(argv[2]) = Num(1, 1)
    /\ IsOk(out) /\ IsLin(out.v)
    /\ {<<"w", 0, 7, 1>>, <<"w", 0, 0, 6>>} \subseteq DOMAIN out.v.c
\* The sum over the entries (i, j, k) of a set of keys of salt's table of
\* coefficient * f_i(cxi) * ctau^j * cpi^k, with f_1 = cxi^2 * ln(cxi) and
\* f_i = cxi^i for i >= 2.  The set is summed one j at a time, and within
\* one j one k at a time.
RECURSIVE SaltSeries(_, _, _, _, _)
SaltSeries(keys, sum, ctau, cpi, cxi) ==
    LET js == {x[2] : x \in keys}
        ks == {x[3] : x \in keys}
        part == IF Cardinality(js) > 1
                THEN {x \in keys : x[2] = CHOOSE j \in js : TRUE}
                ELSE IF Cardinality(ks) > 1
                THEN {x \in keys : x[3] = CHOOSE k \in ks : TRUE}
                ELSE {CHOOSE x \in keys : TRUE}
    IN  IF keys = {} THEN sum
        ELSE IF Cardinality(keys) > 1 /\ part # keys
        THEN LET s == SaltSeries(part, sum, ctau, cpi, cxi)
             IN  IF IsNum(s) THEN SaltSeries(keys \ part, s, ctau, cpi, cxi) ELSE s
        ELSE LET ijk == CHOOSE x \in keys : TRUE
                 f == IF ijk[1] = 1 THEN VMul(VPow(cxi, 2), VLog(cxi))
                      ELSE VPow(cxi, ijk[1])
                 next == VAdd(sum, VMul(VMul(VMul(SaltCoef(ijk), f), VPow(ctau, ijk[2])),
                                        VPow(cpi, ijk[3])))
             IN  IF IsNum(next) THEN SaltSeries(keys \ {ijk}, next, ctau, cpi, cxi)
                 ELSE next

\* C18: gibbs.salt returns the sum over every (i, j, k) entry of its table of
\* coefficient * f_i(cxi) * ctau^j * cpi^k, f_1 = cxi^2 * ln(cxi) and
\* f_i = cxi^i for i >= 2, each entry contributing exactly once; the loop
\* bounds (i in 1..7, j in 0..6, k in 0..5) leave out no table entry.
C18_SaltSeries ==
    (fn = "salt" /\ Len(argv) = 3) =>
        /\ \A ijk \in SaltKeys :
               ijk[1] \in 1..7 /\ ijk[2] \in 0..6 /\ ijk[3] \in 0..5
        /\ out = Ok(SaltSeries(SaltKeys, Zero, Ctau(argv[1]), Cpi(argv[2]),
                               Cxi(argv[3])))

\* salt called at cxi = 2 has returned a sum with the logarithmic terms of
\* the i = 1 entries and the term of the highest power, i = 7.
C18_Witness ==
    /\ fn = "salt" /\ IsOk(out) /\ IsLin(out.v)
    /\ {<<"sln", 2, 0, 0>>, <<"sln", 2, 1, 0>>, <<"s", 7, 0, 0>>}
           \subseteq DOMAIN out.v.c
\* C19: the temperature flag of gibbs.validity is monotone in pressure: if
\* it is true for (T, P) it is true for (T, P') for every P' >= P; the
\* pressure flag does not depend on the temperature.
C19_TemperatureFlagMonotone ==
    fn = "validity" =>
        LET Pa(P) == RMul(ConstOf(P), <<dbar_to_Pa, 1>>)[1]
        IN  /\ \A P2 \in ValidityP :
                   (Pa(argv[2]) <= Pa(P2) /\ out.v.temperature) =>
                       validity(argv[1], P2).temperature
            /\ \A T2 \in ValidityT :
                   validity(T2, argv[2]).pressure = out.v.pressure

\* validity has returned a false temperature flag at a temperature for which
\* the flag is true at a higher pressure: the flag depends on the pressure.
C19_Witness ==
    /\ fn = "validity" /\ ~out.v.temperature
    /\ \E P2 \in ValidityP :
           /\ RMul(ConstOf(argv[2]), <<dbar_to_Pa, 1>>)[1]
                  <= RMul(ConstOf(P2), <<dbar_to_Pa, 1>>)[1]
           /\ validity(argv[1], P2).temperature
====
